---- MODULE Spec2Model ----
(***************************************************************************)
(* Family COO: the dialogue/intent routing of src/brain.py                 *)
(* (get_coo_response and its guards), the drafting gate of src/flow.py     *)
(* (execute_plan_logic) and the proactive checks of src/flow.py            *)
(* (run_proactive_checks, refresh_calendar, reconnect).                    *)
(*                                                                         *)
(* Texts are TLA+ strings; the regular expressions of the source are       *)
(* written out character by character over them.  A JSON value is a        *)
(* tagged record: JNull, JNum, JStr, JList, JObj.                          *)
(***************************************************************************)
EXTENDS Integers, Sequences, FiniteSets, TLC

(***************************************************************************)
(* Strings: the str methods and regex building blocks the source uses.     *)
(***************************************************************************)
Ch(s, i) == SubSeq(s, i, i)

Drop(s, n) == SubSeq(s, n + 1, Len(s))

StartsWith(s, p) == Len(p) <= Len(s) /\ SubSeq(s, 1, Len(p)) = p

SubAt(s, i, sub) == i >= 1 /\ i + Len(sub) - 1 <= Len(s) /\ SubSeq(s, i, i + Len(sub) - 1) = sub

Contains(s, sub) == \E i \in 1..(Len(s) - Len(sub) + 1) : SubAt(s, i, sub)

WhiteSpace == {" ", "\n", "\t"}

Digits == {"0", "1", "2", "3", "4", "5", "6", "7", "8", "9"}

UpperLetters == {"A", "B", "C", "D", "E", "F", "G", "H", "I", "J", "K", "L", "M",
                 "N", "O", "P", "Q", "R", "S", "T", "U", "V", "W", "X", "Y", "Z"}

LowerLetters == {"a", "b", "c", "d", "e", "f", "g", "h", "i", "j", "k", "l", "m",
                 "n", "o", "p", "q", "r", "s", "t", "u", "v", "w", "x", "y", "z"}

LowerTable == [c \in UpperLetters |->
    CASE c = "A" -> "a" [] c = "B" -> "b" [] c = "C" -> "c" [] c = "D" -> "d"
      [] c = "E" -> "e" [] c = "F" -> "f" [] c = "G" -> "g" [] c = "H" -> "h"
      [] c = "I" -> "i" [] c = "J" -> "j" [] c = "K" -> "k" [] c = "L" -> "l"
      [] c = "M" -> "m" [] c = "N" -> "n" [] c = "O" -> "o" [] c = "P" -> "p"
      [] c = "Q" -> "q" [] c = "R" -> "r" [] c = "S" -> "s" [] c = "T" -> "t"
      [] c = "U" -> "u" [] c = "V" -> "v" [] c = "W" -> "w" [] c = "X" -> "x"
      [] c = "Y" -> "y" [] c = "Z" -> "z"]

LowerCh(c) == IF c \in UpperLetters THEN LowerTable[c] ELSE c

UpperCh(c) == IF c \in LowerLetters THEN CHOOSE u \in UpperLetters : LowerTable[u] = c ELSE c

RECURSIVE LowerRange(_, _, _)
\* the characters lo..hi of s, lowered (split in halves)
LowerRange(s, lo, hi) ==
    IF lo > hi THEN ""
    ELSE IF lo = hi THEN LowerCh(Ch(s, lo))
    ELSE LowerRange(s, lo, (lo + hi) \div 2) \o LowerRange(s, (lo + hi) \div 2 + 1, hi)

\* str.lower()
Lower(s) == LowerRange(s, 1, Len(s))

MinOf(S) == CHOOSE x \in S : \A y \in S : x <= y

RECURSIVE SkipWs(_, _)
\* index of the first character at or after i that is not whitespace (Len(s)+1 if none)
SkipWs(s, i) == IF i <= Len(s) /\ Ch(s, i) \in WhiteSpace THEN SkipWs(s, i + 1) ELSE i

RECURSIVE SkipWsBack(_, _)
SkipWsBack(s, i) == IF i >= 1 /\ Ch(s, i) \in WhiteSpace THEN SkipWsBack(s, i - 1) ELSE i

\* str.strip()
Strip(s) == SubSeq(s, SkipWs(s, 1), SkipWsBack(s, Len(s)))

RECURSIVE SkipDots(_, _)
SkipDots(s, i) == IF i <= Len(s) /\ Ch(s, i) = "." THEN SkipDots(s, i + 1) ELSE i

RECURSIVE SkipDotsBack(_, _)
SkipDotsBack(s, i) == IF i >= 1 /\ Ch(s, i) = "." THEN SkipDotsBack(s, i - 1) ELSE i

\* str.strip(".")
StripDots(s) == SubSeq(s, SkipDots(s, 1), SkipDotsBack(s, Len(s)))

\* \w of the re module, on the ASCII texts of the model
IsWordCh(c) == c \in LowerLetters \/ c \in UpperLetters \/ c \in Digits \/ c = "_"

\* \b at the gap before position i (1 <= i <= Len(s)+1)
BoundaryAt(s, i) ==
    LET before == i > 1 /\ IsWordCh(Ch(s, i - 1))
        after  == i <= Len(s) /\ IsWordCh(Ch(s, i))
    IN before # after

\* \bw\b matches at position i
WordAt(s, i, w) == SubAt(s, i, w) /\ BoundaryAt(s, i) /\ BoundaryAt(s, i + Len(w))

HasWord(s, w) == \E i \in 1..(Len(s) - Len(w) + 1) : WordAt(s, i, w)

HasAnyWord(s, W) == \E w \in W : HasWord(s, w)

(***************************************************************************)
(* src/brain.py: intent and guard predicates                               *)
(***************************************************************************)
\* _SCHEDULE_INTENT_RE = \b(schedule|add|plan)\b, IGNORECASE
ScheduleWords == {"schedule", "add", "plan"}

IsScheduleIntent(user_text) == HasAnyWord(Lower(Strip(user_text)), ScheduleWords)

\* an alternative of a regex that must match at the start of t and end on \b
StartsWithWord(t, w) == StartsWith(t, w) /\ BoundaryAt(t, Len(w) + 1)

\* good\s+<part>\b at the start of t
StartsWithGood(t, part) ==
    /\ StartsWith(t, "good")
    /\ SkipWs(t, 5) > 5
    /\ SubAt(t, SkipWs(t, 5), part)
    /\ BoundaryAt(t, SkipWs(t, 5) + Len(part))

\* _GREET_RE = ^\s*(hi|hello|hey|good\s+morning|good\s+afternoon|good\s+evening|hiya)\b
IsGreeting(user_text) ==
    LET t == Lower(Strip(user_text))
    IN \/ \E w \in {"hi", "hello", "hey", "hiya"} : StartsWithWord(t, w)
       \/ \E part \in {"morning", "afternoon", "evening"} : StartsWithGood(t, part)

SchedulingCues == {"would you like to schedule", "do you want to schedule",
                   "shall i schedule", "which one would you like to schedule",
                   "which outing would you like to schedule", "pick a time",
                   "choose a time", "time options"}

\* the first test searches \b[A-C]\b (no IGNORECASE) in the lowered text
LooksLikeBannedSchedulingPrompt(text) ==
    LET t == Lower(Strip(text))
    IN IF t = "" THEN FALSE
       ELSE IF Contains(t, "reply exactly") /\ Contains(t, "schedule")
               /\ HasAnyWord(t, {"A", "B", "C"})
            THEN TRUE
            ELSE \E cue \in SchedulingCues : Contains(t, cue)

\* _WEEKEND_HINT_RE, IGNORECASE, searched in the unstripped text
WeekendHints == {"weekend", "this weekend", "sat", "saturday", "sun", "sunday",
                 "family day", "outing", "go out"}

IsWeekendOutingRequest(user_text) == HasAnyWord(Lower(user_text), WeekendHints)

\* \b\d{1,2}(:\d{2})?\s*(am|pm)\b matches at position i of the lowered text t,
\* with nd digits of hour and (mins = TRUE) a :dd part
ClockAt(t, i, nd, mins) ==
    LET afterHour == i + nd
        afterMin  == IF mins THEN afterHour + 3 ELSE afterHour
        ap        == SkipWs(t, afterMin)
    IN /\ BoundaryAt(t, i)
       /\ \A k \in 0..(nd - 1) : i + k <= Len(t) /\ Ch(t, i + k) \in Digits
       /\ mins => /\ SubAt(t, afterHour, ":")
                  /\ afterHour + 2 <= Len(t)
                  /\ Ch(t, afterHour + 1) \in Digits
                  /\ Ch(t, afterHour + 2) \in Digits
       /\ SubAt(t, ap, "am") \/ SubAt(t, ap, "pm")
       /\ BoundaryAt(t, ap + 2)

\* _user_provided_time
UserProvidedTime(user_text) ==
    \E i \in 1..Len(user_text), nd \in {1, 2}, mins \in BOOLEAN : ClockAt(Lower(user_text), i, nd, mins)

\* _user_requested_multiple
UserRequestedMultiple(user_text) ==
    HasAnyWord(Lower(user_text), {"two", "three", "multiple", "few"})

(***************************************************************************)
(* JSON values, as json.loads builds them and the code inspects them       *)
(***************************************************************************)
JNull == [k |-> "null"]

JNum(n) == [k |-> "num", n |-> n]

JStr(s) == [k |-> "str", s |-> s]

JList(items) == [k |-> "list", items |-> items]

JObj(d) == [k |-> "dict", d |-> d]

\* Python truth value, as used by "x or default"
Truthy(v) ==
    CASE v.k = "null" -> FALSE
      [] v.k = "bool" -> v.b
      [] v.k = "num"  -> v.n # 0
      [] v.k = "str"  -> v.s # ""
      [] v.k = "list" -> v.items # <<>>
      [] v.k = "dict" -> DOMAIN v.d # {}

\* dict.get(key), None when the key is absent
Get(d, key) == IF key \in DOMAIN d THEN d[key] ELSE JNull

DigitStr == [n \in 0..9 |->
    CASE n = 0 -> "0" [] n = 1 -> "1" [] n = 2 -> "2" [] n = 3 -> "3" [] n = 4 -> "4"
      [] n = 5 -> "5" [] n = 6 -> "6" [] n = 7 -> "7" [] n = 8 -> "8" [] n = 9 -> "9"]

DigitVal(c) == CHOOSE n \in 0..9 : DigitStr[n] = c

RECURSIVE NatToStr(_)
NatToStr(n) == IF n < 10 THEN DigitStr[n] ELSE NatToStr(n \div 10) \o DigitStr[n % 10]

\* %H, %M, %S of strftime
TwoDigits(n) == DigitStr[n \div 10] \o DigitStr[n % 10]

RECURSIVE PyRepr(_)
RECURSIVE ReprItems(_, _)
\* repr() of a value inside a container; the bounded inputs hold no non-empty dict there
PyRepr(v) ==
    CASE v.k = "null" -> "None"
      [] v.k = "bool" -> IF v.b THEN "True" ELSE "False"
      [] v.k = "num"  -> IF v.n < 0 THEN "-" \o NatToStr(0 - v.n) ELSE NatToStr(v.n)
      [] v.k = "str"  -> "'" \o v.s \o "'"
      [] v.k = "list" -> "[" \o ReprItems(v.items, 1) \o "]"
      [] v.k = "dict" /\ DOMAIN v.d = {} -> "{}"

ReprItems(items, i) ==
    IF i > Len(items) THEN ""
    ELSE PyRepr(items[i]) \o (IF i < Len(items) THEN ", " ELSE "") \o ReprItems(items, i + 1)

\* str(v)
PyStr(v) == IF v.k = "str" THEN v.s ELSE PyRepr(v)

(***************************************************************************)
(* src/brain.py: JSON parsing of an LLM completion                         *)
(* A completion is RawJson(v) (the text is the JSON document v),           *)
(* RawWrapped(v) (prose around the JSON object v), RawGarbage (no JSON     *)
(* object in it) or RawEmpty (empty after strip).                          *)
(***************************************************************************)
RawJson(v) == [k |-> "raw_json", v |-> v]

RawWrapped(v) == [k |-> "raw_wrapped", v |-> v]

RawGarbage == [k |-> "raw_garbage"]

RawEmpty == [k |-> "raw_empty"]

NoneVal == [k |-> "none"]

RECURSIVE FirstDictIn(_, _)
\* the first {...} of a JSON array document whose items are scalars or objects
FirstDictIn(items, i) ==
    IF i > Len(items) THEN NoneVal
    ELSE IF items[i].k = "dict" THEN items[i] ELSE FirstDictIn(items, i + 1)

\* _extract_first_json_object followed by json.loads
ExtractFirstJsonObject(raw) ==
    CASE raw.k = "raw_wrapped" -> raw.v
      [] raw.k = "raw_json" /\ raw.v.k = "list" -> FirstDictIn(raw.v.items, 1)
      [] OTHER -> NoneVal

\* _try_parse_json: a dict or None
TryParseJson(raw) ==
    IF raw.k = "raw_empty" THEN NoneVal
    ELSE IF raw.k = "raw_json" /\ raw.v.k = "dict" THEN raw.v
    ELSE ExtractFirstJsonObject(raw)

IsDict(v) == v.k = "dict"

(***************************************************************************)
(* src/brain.py: event schema enforcement                                  *)
(***************************************************************************)
RaiseVal == [k |-> "raise"]

\* the groups of the match of \b(\d{1,2})(?::(\d{2}))?\s*(am|pm)\b at i, nd hour digits
ClockGroups(t, i, nd, mins) ==
    [k |-> "clock",
     hour |-> IF nd = 2 THEN 10 * DigitVal(Ch(t, i)) + DigitVal(Ch(t, i + 1)) ELSE DigitVal(Ch(t, i)),
     minute |-> IF mins THEN 10 * DigitVal(Ch(t, i + nd + 1)) + DigitVal(Ch(t, i + nd + 2)) ELSE 0,
     ampm |-> SubSeq(t, SkipWs(t, IF mins THEN i + nd + 3 ELSE i + nd),
                     SkipWs(t, IF mins THEN i + nd + 3 ELSE i + nd) + 1)]

\* \d{1,2} is greedy: two digits when the match with two exists
ClockGroupsAt(t, i, two) ==
    ClockGroups(t, i, IF two THEN 2 ELSE 1, ClockAt(t, i, IF two THEN 2 ELSE 1, TRUE))

ClockStarts(t) == {i \in 1..Len(t) : \E nd \in {1, 2}, mins \in BOOLEAN : ClockAt(t, i, nd, mins)}

FirstClockIn(t, at) ==
    IF at = {} THEN NoneVal
    ELSE ClockGroupsAt(t, MinOf(at), ClockAt(t, MinOf(at), 2, TRUE) \/ ClockAt(t, MinOf(at), 2, FALSE))

\* re.search: the leftmost match in the lowered text, or None
FirstClock(t) == FirstClockIn(t, ClockStarts(t))

\* hour of the 24-hour clock from the 12-hour groups
Hour24(m) ==
    IF m.ampm = "pm" /\ m.hour # 12 THEN m.hour + 12
    ELSE IF m.ampm = "am" /\ m.hour = 12 THEN 0 ELSE m.hour

\* tomorrow.replace(hour, minute): ValueError for an hour above 23 or a minute above 59
TomorrowAt(m) ==
    IF m.k = "none" THEN NoneVal
    ELSE IF Hour24(m) > 23 \/ m.minute > 59 THEN RaiseVal
    ELSE [k |-> "dt", day |-> 1, hour |-> Hour24(m), minute |-> m.minute]

\* _parse_tomorrow_time: None, a datetime of tomorrow, or the ValueError
ParseTomorrowTime(user_text) ==
    IF user_text = "" \/ ~Contains(Lower(user_text), "tomorrow") THEN NoneVal
    ELSE TomorrowAt(FirstClock(Lower(user_text)))

\* _default_end_time: start + 60 minutes
DefaultEndTime(dt) ==
    IF dt.hour = 23 THEN [dt EXCEPT !.day = dt.day + 1, !.hour = 0]
    ELSE [dt EXCEPT !.hour = dt.hour + 1]

\* strftime("%Y-%m-%dT%H:%M:%S"); the date is written as D<days from today>
FormatDt(dt) == "D" \o NatToStr(dt.day) \o "T" \o TwoDigits(dt.hour) \o ":" \o TwoDigits(dt.minute) \o ":00"

ValidTypes == {"plan", "conflict", "question", "confirmation", "chat", "error"}

\* str(ev.get(f) or "")
FieldStr(ev, f) == IF Truthy(Get(ev, f)) THEN PyStr(Get(ev, f)) ELSE ""

\* the event built from ev when the safety fallback gave dt
CoerceEventWith(ev, dt, fill) ==
    IF fill /\ dt.k = "raise" THEN RaiseVal
    ELSE JObj([title       |-> JStr(FieldStr(ev, "title")),
               start_time  |-> JStr(IF fill /\ dt.k = "dt" THEN FormatDt(dt) ELSE FieldStr(ev, "start_time")),
               end_time    |-> JStr(IF fill /\ dt.k = "dt" THEN FormatDt(DefaultEndTime(dt)) ELSE FieldStr(ev, "end_time")),
               location    |-> JStr(FieldStr(ev, "location")),
               description |-> JStr(FieldStr(ev, "description"))])

\* the body of the loop over events_in for one dict ev: the coerced event, or raise
CoerceEvent(ev, user_request) ==
    IF FieldStr(ev, "start_time") = "" \/ FieldStr(ev, "end_time") = ""
    THEN CoerceEventWith(ev, ParseTomorrowTime(user_request), TRUE)
    ELSE CoerceEventWith(ev, NoneVal, FALSE)

\* events_out.append(ev), or the exception carried on
ConsEvent(ev, rest) ==
    IF ev.k = "raise" \/ rest.k = "raise" THEN RaiseVal ELSE JList(<<ev>> \o rest.items)

RECURSIVE CoerceEvents(_, _, _)
\* events_out, as JList(...), or RaiseVal
CoerceEvents(items, i, user_request) ==
    IF i > Len(items) THEN JList(<<>>)
    ELSE IF items[i].k # "dict" THEN CoerceEvents(items, i + 1, user_request)
    ELSE ConsEvent(CoerceEvent(items[i].d, user_request), CoerceEvents(items, i + 1, user_request))

\* text / pre_prep: kept if a str, "" if None, str(x) otherwise
TextOf(v) == IF v.k = "str" THEN v.s ELSE IF v.k = "null" THEN "" ELSE PyStr(v)

\* TypeOf without the membership test of line 440: any lowered string is kept
TypeOfUnchecked(v) ==
    IF ~Truthy(v) THEN "chat"
    ELSE IF v.k # "str" THEN "raise"
    ELSE Lower(v.s)

\* (parsed.get("type") or "chat").lower(): AttributeError for a truthy non-str
TypeOf(v) ==
    IF ~Truthy(v) THEN "chat"
    ELSE IF v.k # "str" THEN "raise"
    ELSE IF Lower(v.s) \in ValidTypes THEN Lower(v.s) ELSE "chat"

MkResponse(type, text, pre_prep, events) ==
    JObj([type |-> JStr(type), text |-> JStr(text), pre_prep |-> JStr(pre_prep), events |-> JList(events)])

\* events_in: parsed.get("events") if it is a list, else []
EventsIn(parsed) == IF Get(parsed.d, "events").k = "list" THEN Get(parsed.d, "events").items ELSE <<>>

SchemaResult(t, text, pre_prep, events) ==
    IF t = "raise" \/ events.k = "raise" THEN RaiseVal ELSE MkResponse(t, text, pre_prep, events.items)

\* _ensure_event_schema(parsed, user_request, now): the response dict, or RaiseVal
EnsureEventSchema(parsed, user_request) ==
    SchemaResult(TypeOf(Get(parsed.d, "type")), TextOf(Get(parsed.d, "text")),
                 TextOf(Get(parsed.d, "pre_prep")), CoerceEvents(EventsIn(parsed), 1, user_request))

\* _strict_error_json
StrictErrorJson(msg) == MkResponse("error", msg, "", <<>>)

\* fields of a response dict that went through _ensure_event_schema
RType(r) == r.d.type.s

RText(r) == r.d.text.s

REvents(r) == r.d.events.items

(***************************************************************************)
(* src/brain.py: weekend gate helpers                                      *)
(***************************************************************************)
DeadEndFor(t, txt, ut) ==
    \/ t = "error"
    \/ txt = ""
    \/ ut # "" /\ Lower(txt) = ut
    \/ Len(txt) < 10 /\ t \in {"chat", "question"}
    \/ HasAnyWord(Lower(txt), {"can't", "cannot", "unable to"}) /\ t # "conflict"

\* _dead_end_output
DeadEndOutput(parsed, user_request) ==
    DeadEndFor(Lower(RType(parsed)), Strip(RText(parsed)), Lower(Strip(user_request)))

\* has_abc
HasABC(txt) == Contains(txt, "(A)") /\ Contains(txt, "(B)") /\ Contains(txt, "(C)")

(***************************************************************************)
(* src/brain.py: A/B/C continuity routing                                  *)
(***************************************************************************)
Msg(role, content) == [role |-> role, content |-> content]

RECURSIVE LastAssistantFrom(_, _)
LastAssistantFrom(chat_history, i) ==
    IF i < 1 THEN ""
    ELSE IF Lower(chat_history[i].role) = "assistant" THEN Strip(chat_history[i].content)
    ELSE LastAssistantFrom(chat_history, i - 1)

\* _get_last_assistant_text
GetLastAssistantText(chat_history) == LastAssistantFrom(chat_history, Len(chat_history))

ChoiceLetters == {"a", "b", "c"}

\* [A-C]\b at i with \b before it (the (schedule\s*)? group matching nothing)
StandaloneChoiceAt(t, i) ==
    i <= Len(t) /\ Ch(t, i) \in ChoiceLetters /\ BoundaryAt(t, i) /\ BoundaryAt(t, i + 1)

\* \bschedule\s*[A-C]\b at i
ScheduleChoiceAt(t, i) ==
    LET j == SkipWs(t, i + 8)
    IN SubAt(t, i, "schedule") /\ BoundaryAt(t, i) /\ j <= Len(t)
       /\ Ch(t, j) \in ChoiceLetters /\ BoundaryAt(t, j + 1)

ChoiceStarts(t) == {i \in 1..Len(t) : ScheduleChoiceAt(t, i) \/ StandaloneChoiceAt(t, i)}

ChoiceAt(t, i) ==
    IF ScheduleChoiceAt(t, i) THEN UpperCh(Ch(t, SkipWs(t, i + 8))) ELSE UpperCh(Ch(t, i))

FirstChoiceIn(t, at) == IF at = {} THEN "" ELSE ChoiceAt(t, MinOf(at))

\* re.search(r"\b(schedule\s*)?([A-C])\b", ut, IGNORECASE): group 2 upper-cased, "" if no match
FirstChoice(t) == FirstChoiceIn(t, ChoiceStarts(t))

\* the rest of the option-line pattern, from the letter at i3 on
OptionLetterAt(s, i3) ==
    /\ i3 <= Len(s) /\ LowerCh(Ch(s, i3)) \in ChoiceLetters
    /\ SkipWs(s, i3 + 1) <= Len(s) /\ Ch(s, SkipWs(s, i3 + 1)) \in {")", ".", ":", "-"}

OptionParenAt(s, i1) == OptionLetterAt(s, SkipWs(s, IF SubAt(s, i1, "(") THEN i1 + 1 ELSE i1))

\* (^|\n)\s*\(?\s*[A-C]\s*\)?\s*[\).:-] matches with its (^|\n) ending before p
OptionLineAt(s, p) == (p = 1 \/ Ch(s, p - 1) = "\n") /\ OptionParenAt(s, SkipWs(s, p))

HasOptionLine(s) == \E p \in 1..Len(s) : OptionLineAt(s, p)

SelectionFor(choice, last, ll) ==
    IF HasAnyWord(ll, {"what time", "time works", "start time"})
    THEN [kind |-> "time_choice", choice |-> choice]
    ELSE IF HasAnyWord(ll, {"schedule it", "change the time", "cancel"})
    THEN [kind |-> "confirm_choice", choice |-> choice]
    ELSE IF HasAnyWord(ll, {"weekend", "saturday", "sunday", "outing", "outings"})
    THEN [kind |-> "weekend_choice", choice |-> choice]
    ELSE IF HasABC(last) \/ HasOptionLine(last)
    THEN [kind |-> "time_choice", choice |-> choice]
    ELSE [kind |-> "none", choice |-> ""]

SelectionOf(choice, last) ==
    IF choice = "" THEN [kind |-> "none", choice |-> ""] ELSE SelectionFor(choice, last, Lower(last))

\* _match_selected_option
MatchSelectedOption(user_text, last_assistant_text) ==
    SelectionOf(FirstChoice(Lower(Strip(user_text))), last_assistant_text)

ParensFrom(s, i) == {j \in i..Len(s) : Ch(s, j) \in {"(", ")"}}

EndBefore(s, parens) == IF parens = {} THEN Len(s) ELSE MinOf(parens) - 1

\* last index of the run of characters other than ( and ) that starts at i
RunEnd(s, i) == EndBefore(s, ParensFrom(s, i))

PickedStarts(last, c) ==
    {i \in 1..(Len(last) - 3) : Lower(SubSeq(last, i, i + 2)) = "(" \o c \o ")" /\ RunEnd(last, i + 3) >= i + 3}

PickedAt(last, at) ==
    IF at = {} THEN "" ELSE StripDots(Strip(SubSeq(last, MinOf(at) + 3, RunEnd(last, MinOf(at) + 3))))

\* re.search(rf"\({choice}\)\s*([^()]+)", last, IGNORECASE).group(1).strip().strip("."),
\* "" when there is no match
PickedFrom(last, c) == PickedAt(last, PickedStarts(last, c))

\* lines 751-769: the loop-stopper and the confirm-choice mapping for selection sel
RoutedFor(user_request, sel, picked) ==
    IF sel.kind = "confirm_choice" /\ sel.choice # ""
    THEN CASE sel.choice = "A" -> "schedule it"
           [] sel.choice = "B" -> "change the time"
           [] sel.choice = "C" -> "cancel"
    ELSE IF sel.kind = "time_choice" /\ sel.choice # "" /\ picked # ""
    THEN "schedule " \o picked
    ELSE user_request

RoutedBy(user_request, last, sel) == RoutedFor(user_request, sel, PickedFrom(last, Lower(sel.choice)))

\* the user_request the rest of get_coo_response works with
RouteUserRequest(user_request, last_assistant_text) ==
    RoutedBy(user_request, last_assistant_text, MatchSelectedOption(user_request, last_assistant_text))

(***************************************************************************)
(* src/flow.py: helpers of execute_plan_logic                              *)
(***************************************************************************)
QuestionPrefixes == {"what", "whats", "what's", "when", "show", "list", "tell me",
                     "do i", "did i", "am i", "any", "my upcoming", "upcoming schedule",
                     "next event", "next events"}

\* _should_create_draft without the "?" test
ShouldCreateDraftLoose(text) ==
    LET t == Lower(Strip(text))
    IN /\ t # ""
       /\ ~\E p \in QuestionPrefixes : StartsWith(t, p)
       /\ HasAnyWord(t, ScheduleWords)

\* execute_plan_logic._should_create_draft
ShouldCreateDraft(text) ==
    LET t == Lower(Strip(text))
    IN /\ t # ""
       /\ ~Contains(t, "?")
       /\ ~\E p \in QuestionPrefixes : StartsWith(t, p)
       /\ HasAnyWord(t, ScheduleWords)

\* _extract_idea_text: ^\s*(idea|save idea|add idea)\s*:\s*(.+)\s*$ on a one-line
\* message; group 2 stripped, "" standing for None
ExtractIdeaText(user_text) ==
    LET t == Lower(user_text)
        s == SkipWs(t, 1)
        heads == {h \in {"idea", "save idea", "add idea"} : SubAt(t, s, h)}
    IN IF heads = {} THEN ""
       ELSE LET h == CHOOSE x \in heads : TRUE
                c == SkipWs(t, s + Len(h))
            IN IF SubAt(t, c, ":") /\ ~Contains(Drop(user_text, c), "\n")
               THEN Strip(Drop(user_text, c)) ELSE ""

\* json.dumps of a dict of strings and lists: the text is that JSON document
JsonDumps(obj) == RawJson(obj)

\* _extract_json: json.loads, else the greedy (\{.*\}) span; a dict or None
ExtractJson(raw) ==
    CASE raw.k = "raw_json" /\ raw.v.k = "dict" -> raw.v
      [] raw.k = "raw_wrapped" -> raw.v
      [] /\ raw.k = "raw_json" /\ raw.v.k = "list"
         /\ Cardinality({i \in 1..Len(raw.v.items) : raw.v.items[i].k = "dict"}) = 1 -> FirstDictIn(raw.v.items, 1)
      [] OTHER -> NoneVal

ChatCap == 15

\* add_msg: append, keep the last 15
AddMsg(chat_history, role, content) ==
    LET h == Append(chat_history, Msg(role, content))
    IN IF Len(h) > ChatCap THEN SubSeq(h, Len(h) - ChatCap + 1, Len(h)) ELSE h

(***************************************************************************)
(* State                                                                   *)
(***************************************************************************)
VARIABLES
    st,               \* st.session_state: the keys the modelled handlers read or write
    query_user,       \* the "user" URL query parameter
    missions,         \* memory/mission_log.json
    today,            \* the local calendar day, counted from the first day
    proactive_added,  \* history: proactive messages added, per <<user, day>>
    last_op,          \* history: the handler that took the last step
    pc,               \* where execute_plan_logic / get_coo_response stands
    user_text,        \* execute_plan_logic's user_text
    has_image,        \* execute_plan_logic was given an image_obj
    user_request,     \* get_coo_response's user_request after continuity routing
    parsed,           \* get_coo_response's parsed, after _ensure_event_schema
    calls,            \* history: the LLM calls of this invocation and what each gave, in order
    ret,              \* what get_coo_response gave its caller
    requests,         \* number of execute_plan_logic invocations so far
    cal,              \* history: the last add_event_to_calendar call and what it gave
    travel,           \* history: the last _conflict_with_travel call and what it gave
    memory_file,      \* memory/feedback_log.json
    user_memory       \* memory/users/<user>.json, per user

vars == <<st, query_user, missions, today, proactive_added, last_op,
          pc, user_text, has_image, user_request, parsed, calls, ret, requests,
          cal, travel, memory_file, user_memory>>

brainVars == <<pc, user_text, has_image, user_request, parsed, calls, ret, requests>>

libVars == <<cal, travel, memory_file, user_memory>>

(***************************************************************************)
(* Bounded inputs                                                          *)
(***************************************************************************)
MaxRequests == 1

Users == {"a@x.com", "b@x.com"}

\* what the user types into the command box (submit_plan strips it)
UserTexts == {
    "hi",
    "hello, gym tomorrow at 5pm",
    "schedule gym",
    "schedule gym tomorrow 3pm",
    "schedule gym tomorrow 13pm",
    "schedule gym 3pm?",
    "weekend outing ideas",
    "what is on my schedule",
    "add two events",
    "B",
    "idea: visit the zoo"}

\* submit_plan returns early when there is neither text nor image
Submissions ==
    {[text |-> t, image |-> FALSE] : t \in UserTexts}
      \cup {[text |-> "", image |-> TRUE]}

TimeOptionsText ==
    "What time works?\n(A) Saturday 9am\n(B) Sunday 2pm\n(C) Monday 6pm\nReply exactly: schedule A / schedule B / schedule C"

WeekendOptionsText ==
    "Weekend outing - pick one:\n(A) Zoo\n(B) Park\n(C) Beach\nReply exactly: schedule A / schedule B / schedule C"


EvGym == [title |-> JStr("Gym"), start_time |-> JStr("D1T15:00:00"), end_time |-> JStr("D1T16:00:00"),
          location |-> JStr("Home"), description |-> JStr("")]

EvNoTime == [title |-> JStr("Gym"), start_time |-> JNull, location |-> JNum(7), who |-> JStr("me")]

\* the chat and the drafts earlier turns left in the session
InitialSessions == {
    [chat_history |-> <<>>, pending_events |-> JList(<<>>)],
    [chat_history |-> <<Msg("user", "schedule gym"), Msg("assistant", TimeOptionsText)>>,
     pending_events |-> JList(<<JObj([title |-> JStr("Dentist"), start_time |-> JStr("D2T09:00:00"),
                                      end_time |-> JStr("D2T10:00:00"), location |-> JStr(""),
                                      description |-> JStr("")])>>)],
    [chat_history |-> <<Msg("assistant", "Gym tomorrow at 6pm. Schedule it, change the time or cancel?")>>,
     pending_events |-> JList(<<>>)]}

\* completions an LLM call can give back
LLMTexts == {
    RawGarbage,
    RawEmpty,
    RawJson(JList(<<JNum(1)>>)),
    RawJson(JObj([type |-> JStr("plan"), text |-> JStr("Booked gym for you."), pre_prep |-> JStr("Pack a bottle."),
                  events |-> JList(<<JObj(EvGym)>>)])),
    RawWrapped(JObj([type |-> JStr("plan"), text |-> JStr("Adding gym to your calendar."),
                     events |-> JList(<<JObj(EvNoTime), JStr("junk")>>)])),
    RawJson(JObj([type |-> JStr("chat"), text |-> JStr("Hello! How can I help today?"), pre_prep |-> JStr(""),
                  events |-> JList(<<>>)])),
    RawJson(JObj([type |-> JStr("chat"), text |-> JStr("Would you like to schedule one of these?"),
                  pre_prep |-> JStr(""), events |-> JList(<<>>)])),
    RawJson(JObj([type |-> JStr("question"), text |-> JStr("When should I schedule it?"), pre_prep |-> JStr(""),
                  events |-> JList(<<>>)])),
    RawJson(JObj([type |-> JStr("question"), text |-> JStr(WeekendOptionsText), pre_prep |-> JStr("Bring water."),
                  events |-> JList(<<>>)])),
    RawJson(JObj([type |-> JNum(7), text |-> JStr("seven")])),
    RawJson(JObj([type |-> JStr("Reminder"), text |-> JNull, pre_prep |-> JNum(3), events |-> JStr("none"),
                  note |-> JStr("extra")])),
    RawJson(JObj([type |-> JStr("error"), text |-> JStr("Something went wrong.")]))}

\* client.chat.completions.create either raises or returns a completion
LLMOutcomes == {RaiseVal} \cup LLMTexts

(***************************************************************************)
(* src/brain.py: the gates of get_coo_response after parsing               *)
(***************************************************************************)
\* the condition under which the safety gate regenerates a chat response
PushesScheduling(response) ==
    \/ LooksLikeBannedSchedulingPrompt(RText(response))
    \/ /\ RType(response) \in {"plan", "question", "confirmation", "conflict"}
       /\ Contains(Lower(RText(response)), "schedule")

\* which of the three regenerations runs for a schema-enforced response, or "return"
GateDecision(response, request) ==
    IF ~IsWeekendOutingRequest(request) /\ ~IsScheduleIntent(request) /\ PushesScheduling(response)
    THEN "safe_chat"
    ELSE IF /\ IsWeekendOutingRequest(request)
            /\ \/ DeadEndOutput(response, request)
               \/ Lower(RType(response)) # "question"
               \/ ~HasABC(RText(response))
    THEN "weekend_regen"
    ELSE IF /\ Lower(RType(response)) = "plan" /\ REvents(response) # <<>>
            /\ ~UserProvidedTime(request) /\ ~UserRequestedMultiple(request)
    THEN "time_question"
    ELSE "return"

\* AfterRepair that asks for another repair when the repaired text does not parse
AfterRepairRetry(fixed) == IF IsDict(fixed) THEN "gates" ELSE "repair"

\* after the repair call: on to the gates with the repaired dict, or the error return
AfterRepair(fixed) == IF IsDict(fixed) THEN "gates" ELSE "error"

\* parsed["type"] = ...; parsed["events"] = [] of the two regenerations
ForceType(response, type) == MkResponse(type, RText(response), response.d.pre_prep.s, <<>>)

(***************************************************************************)
(* src/flow.py: execute_plan_logic from the brain's answer on              *)
(***************************************************************************)
\* lines 318-367 for the raw string the brain returned
FinishPlan(s, text, image, raw) ==
    LET data == ExtractJson(raw)
    IN IF data.k = "none" THEN s
       ELSE IF ~Truthy(data)
       THEN [s EXCEPT !.chat_history = AddMsg(@, "assistant", "Error: I couldn't process that. Please try again.")]
       ELSE LET h1 == IF text # "" THEN AddMsg(s.chat_history, "user", text)
                      ELSE IF image THEN AddMsg(s.chat_history, "user", "[Scanned Image]")
                      ELSE s.chat_history
                new_events == IF "events" \in DOMAIN data.d THEN data.d.events ELSE JList(<<>>)
            IN [s EXCEPT !.chat_history = AddMsg(h1, "assistant", IF "text" \in DOMAIN data.d THEN PyStr(data.d.text) ELSE ""),
                         !.pending_events = IF ShouldCreateDraft(text) /\ Truthy(new_events)
                                            THEN new_events ELSE @]

(***************************************************************************)
(* Actions of execute_plan_logic; each runs the code from one LLM call     *)
(* (or the entry) to the next LLM call or to the handler's end             *)
(***************************************************************************)
NoDate == 0

SessionDefaults ==
    [user_email |-> "", authenticated |-> FALSE, last_proactive_date |-> NoDate,
     last_proactive_kind |-> "", calendar_online |-> FALSE, device_flow |-> FALSE,
     pending_events |-> JList(<<>>), chat_history |-> <<>>]

\* what an LLM call gave: an exception, a completion that parses to a dict, or one
\* that does not
CallResult(out) ==
    IF out.k = "raise" THEN "raised" ELSE IF IsDict(TryParseJson(out)) THEN "dict" ELSE "unparsed"

\* history entry of one client.chat.completions.create call
Call(label, out) == [call |-> label, result |-> CallResult(out)]

\* get_coo_response returns json.dumps(r) and execute_plan_logic runs to its end
BrainReturns(r) ==
    /\ ret' = [k |-> "returned", raw |-> JsonDumps(r)]
    /\ st' = FinishPlan(st, user_text, has_image, JsonDumps(r))
    /\ pc' = "done"

\* an exception leaves get_coo_response and execute_plan_logic
BrainRaises ==
    /\ ret' = [k |-> "raised"]
    /\ st' = st
    /\ pc' = "done"

\* lines 891-926: the gate chosen for the schema-enforced response
GateStep(response, decision) ==
    IF decision = "return" THEN BrainReturns(response)
    ELSE pc' = decision /\ UNCHANGED <<st, ret>>

\* line 885 on: the schema-enforced response goes through the gates
SchemaStep(response) ==
    IF response.k = "raise" THEN parsed' = parsed /\ BrainRaises
    ELSE parsed' = response /\ GateStep(response, GateDecision(response, user_request))

\* lines 885-926: schema enforcement and the three gates
RunGates(p) == SchemaStep(EnsureEventSchema(p, user_request))

ExecutePlanLogic(sub, key_ok, idea_ok) ==
    /\ pc \in {"idle", "done"}
    /\ requests < MaxRequests
    /\ requests' = requests + 1
    /\ user_text' = sub.text
    /\ has_image' = sub.image
    /\ calls' = <<>>
    /\ parsed' = NoneVal
    /\ ret' = NoneVal
    /\ last_op' = "execute_plan_logic"
    /\ IF ExtractIdeaText(sub.text) # ""
       THEN \* handle_idea_inbox_capture
            /\ st' = [st EXCEPT !.chat_history =
                        Append(Append(@, Msg("user", sub.text)),
                               Msg("assistant", IF idea_ok THEN "Saved to Ideas Inbox: " \o ExtractIdeaText(sub.text)
                                                ELSE "Could not save idea."))]
            /\ user_request' = sub.text
            /\ pc' = "done"
       ELSE IF ~key_ok
       THEN /\ st' = [st EXCEPT !.chat_history = AddMsg(@, "assistant", "Error: Missing 'groq_api_key' in secrets.toml.")]
            /\ user_request' = sub.text
            /\ pc' = "done"
       ELSE /\ st' = st
            /\ user_request' = RouteUserRequest(sub.text, GetLastAssistantText(st.chat_history))
            /\ pc' = "primary"
    /\ UNCHANGED <<query_user, missions, today, proactive_added>>
    /\ UNCHANGED libVars

\* lines 873-885: the first parse of the completion
AfterPrimary(p) ==
    IF IsDict(p) THEN RunGates(p) ELSE pc' = "repair" /\ UNCHANGED <<st, ret, parsed>>

\* lines 858-885
PrimaryCall(out) ==
    /\ pc = "primary"
    /\ calls' = Append(calls, Call("primary", out))
    /\ last_op' = "execute_plan_logic"
    /\ IF out.k = "raise" THEN parsed' = parsed /\ BrainReturns(StrictErrorJson("llm call failed"))
       ELSE AfterPrimary(TryParseJson(out))
    /\ UNCHANGED <<query_user, missions, today, proactive_added, user_text, has_image, user_request, requests>>
    /\ UNCHANGED libVars

\* _repair_json_with_llm: None when the call raises, else the parse of its completion
RepairResult(out) == IF out.k = "raise" THEN NoneVal ELSE TryParseJson(out)

\* lines 877-885 for the result of the repair and the step it leads to
RepairStep(fixed, step) ==
    CASE step = "gates" -> RunGates(fixed)
      [] step = "error" ->
           parsed' = parsed /\ BrainReturns(StrictErrorJson("I couldn't process that. Please try again."))
      [] OTHER -> pc' = step /\ UNCHANGED <<st, ret, parsed>>

\* lines 875-885: _repair_json_with_llm and the second parse
RepairCall(out) ==
    /\ pc = "repair"
    /\ calls' = Append(calls, Call("repair", out))
    /\ last_op' = "execute_plan_logic"
    /\ RepairStep(RepairResult(out), AfterRepair(RepairResult(out)))
    /\ UNCHANGED <<query_user, missions, today, proactive_added, user_text, has_image, user_request, requests>>
    /\ UNCHANGED libVars

\* the forced type and empty events on the schema-enforced regeneration
ForcedStep(response, type) ==
    IF response.k = "raise" THEN BrainRaises ELSE BrainReturns(ForceType(response, type))

\* the end of _regen_safe_chat_no_scheduling / _regen_time_question for a parsed dict
FinishRegen(p, type) == ForcedStep(EnsureEventSchema(p, user_request), type)

\* the first parse inside a regeneration: on to its end, or to its repair call
AfterRegenParse(p, type, repair_pc) ==
    IF IsDict(p) THEN FinishRegen(p, type) ELSE pc' = repair_pc /\ UNCHANGED <<st, ret>>

\* the repaired dict inside a regeneration, or its empty fallback
AfterRegenRepair(fixed, type) ==
    IF IsDict(fixed) THEN FinishRegen(fixed, type) ELSE BrainReturns(MkResponse(type, "", "", <<>>))

\* _regen_dynamic_weekend_options: the schema-enforced dict is returned as it is
WeekendStep(response) == IF response.k = "raise" THEN BrainRaises ELSE BrainReturns(response)

\* parsed = _try_parse_json(raw) or {} (lines 548-550)
DictOrEmpty(p) == IF IsDict(p) THEN p ELSE JObj(<<>>)

\* _regen_safe_chat_no_scheduling up to its first parse (lines 617-626)
SafeChatCall(out) ==
    /\ pc = "safe_chat"
    /\ calls' = Append(calls, Call("safe_chat", out))
    /\ last_op' = "execute_plan_logic"
    /\ IF out.k = "raise" THEN BrainRaises
       ELSE AfterRegenParse(TryParseJson(out), "chat", "safe_chat_repair")
    /\ UNCHANGED <<query_user, missions, today, proactive_added, user_text, has_image, user_request, parsed, requests>>
    /\ UNCHANGED libVars

\* _regen_safe_chat_no_scheduling from its repair attempt on (lines 627-638)
SafeChatRepairCall(out) ==
    /\ pc = "safe_chat_repair"
    /\ calls' = Append(calls, Call("safe_chat_repair", out))
    /\ last_op' = "execute_plan_logic"
    /\ AfterRegenRepair(RepairResult(out), "chat")
    /\ UNCHANGED <<query_user, missions, today, proactive_added, user_text, has_image, user_request, parsed, requests>>
    /\ UNCHANGED libVars

\* _regen_dynamic_weekend_options
WeekendRegenCall(out) ==
    /\ pc = "weekend_regen"
    /\ calls' = Append(calls, Call("weekend_regen", out))
    /\ last_op' = "execute_plan_logic"
    /\ IF out.k = "raise" THEN BrainRaises
       ELSE WeekendStep(EnsureEventSchema(DictOrEmpty(TryParseJson(out)), user_request))
    /\ UNCHANGED <<query_user, missions, today, proactive_added, user_text, has_image, user_request, parsed, requests>>
    /\ UNCHANGED libVars

\* _regen_time_question up to its first parse (lines 664-673)
TimeQuestionCall(out) ==
    /\ pc = "time_question"
    /\ calls' = Append(calls, Call("time_question", out))
    /\ last_op' = "execute_plan_logic"
    /\ IF out.k = "raise" THEN BrainRaises
       ELSE AfterRegenParse(TryParseJson(out), "question", "time_question_repair")
    /\ UNCHANGED <<query_user, missions, today, proactive_added, user_text, has_image, user_request, parsed, requests>>
    /\ UNCHANGED libVars

\* _regen_time_question from its repair attempt on (lines 674-684)
TimeQuestionRepairCall(out) ==
    /\ pc = "time_question_repair"
    /\ calls' = Append(calls, Call("time_question_repair", out))
    /\ last_op' = "execute_plan_logic"
    /\ AfterRegenRepair(RepairResult(out), "question")
    /\ UNCHANGED <<query_user, missions, today, proactive_added, user_text, has_image, user_request, parsed, requests>>
    /\ UNCHANGED libVars

\* reject_draft: the draft ev leaves pending_events
RejectDraft(i) ==
    /\ pc \in {"idle", "done"}
    /\ i \in 1..Len(st.pending_events.items)
    /\ st' = [st EXCEPT !.pending_events =
                 JList(SelectSeq(@.items, LAMBDA x : x # st.pending_events.items[i]))]
    /\ last_op' = "reject_draft"
    /\ UNCHANGED <<query_user, missions, today, proactive_added>>
    /\ UNCHANGED brainVars
    /\ UNCHANGED libVars

\* a session that is unlocked, with the chat and the drafts earlier turns left
Init ==
    /\ \E i \in InitialSessions :
          st = [SessionDefaults EXCEPT !.authenticated = TRUE, !.user_email = "a@x.com",
                                       !.chat_history = i.chat_history, !.pending_events = i.pending_events]
    /\ query_user = "a@x.com"
    /\ missions = <<>>
    /\ today = 1
    /\ proactive_added = [u \in Users, d \in 1..1 |-> 0]
    /\ last_op = "init_state"
    /\ pc = "idle"
    /\ user_text = ""
    /\ has_image = FALSE
    /\ user_request = ""
    /\ parsed = NoneVal
    /\ calls = <<>>
    /\ ret = NoneVal
    /\ requests = 0
    /\ cal = NoneVal
    /\ travel = NoneVal
    /\ memory_file = <<>>
    /\ user_memory = [u \in Users |-> <<>>]

Next ==
    \/ \E sub \in Submissions, key_ok \in BOOLEAN, idea_ok \in BOOLEAN : ExecutePlanLogic(sub, key_ok, idea_ok)
    \/ \E out \in LLMOutcomes : PrimaryCall(out)
    \/ \E out \in LLMOutcomes : RepairCall(out)
    \/ \E out \in LLMOutcomes : SafeChatCall(out)
    \/ \E out \in LLMOutcomes : SafeChatRepairCall(out)
    \/ \E out \in LLMOutcomes : WeekendRegenCall(out)
    \/ \E out \in LLMOutcomes : TimeQuestionCall(out)
    \/ \E out \in LLMOutcomes : TimeQuestionRepairCall(out)
    \/ \E i \in 1..1 : RejectDraft(i)

Spec == Init /\ [][Next]_vars

(***************************************************************************)
(* src/flow.py: the session handlers around run_proactive_checks           *)
(***************************************************************************)
MaxDay == 2

MaxMissions == 1

\* datetime.now().astimezone().weekday() of a day: day 1 is a Wednesday (Mon = 0)
Dow(day) == (day + 1) % 7

\* get_pending_review: is there a pending mission past its end_time (no handler of
\* this model snoozes a mission, so snoozed_until stays None)
GetPendingReview(ms) == \E i \in 1..Len(ms) : ms[i].status = "pending" /\ ms[i].ended

\* the mission get_pending_review picks (missions carry the same title here)
PendingIndex(ms) == MinOf({i \in 1..Len(ms) : ms[i].status = "pending" /\ ms[i].ended})

CheckinText == "Action required: Did you complete 'Gym'? Use **Yes/No** above."

SuggestionText(pref_outing) ==
    IF pref_outing # ""
    THEN "Quick suggestion: Want 3 " \o pref_outing \o " options for this weekend? Type: **plan weekend** (or tell me Sat/Sun + time)."
    ELSE "Quick suggestion: Want 3 weekend outing ideas? Type: **plan weekend** (or tell me Sat/Sun + time)."

\* the guard of line 130 comparing the wrong way round
AlreadyRanTodayStale(s, day) == s.last_proactive_date > day

\* line 130: the guard that makes the checks run once a day
AlreadyRanToday(s, day) == s.last_proactive_date = day

\* run_proactive_checks: the kind of proactive message it adds, "" when it adds none
ProactiveKind(s, pending, day) ==
    IF Lower(Strip(s.user_email)) = "" THEN ""
    ELSE IF ~s.authenticated THEN ""
    ELSE IF AlreadyRanToday(s, day) THEN ""
    ELSE IF pending THEN "mission_checkin"
    ELSE IF Dow(day) \in {3, 4, 5, 6} THEN "daily_suggestion"
    ELSE ""

\* the session state run_proactive_checks leaves when it adds a message of that kind
WithProactive(s, kind, pref_outing, day) ==
    IF kind = "" THEN s
    ELSE [s EXCEPT !.chat_history = AddMsg(@, "assistant",
                                           IF kind = "mission_checkin" THEN CheckinText
                                           ELSE SuggestionText(pref_outing)),
                   !.last_proactive_date = day,
                   !.last_proactive_kind = kind]

\* run_proactive_checks
RunProactiveChecks(s, pending, pref_outing, day) ==
    WithProactive(s, ProactiveKind(s, pending, day), pref_outing, day)

\* history: one more proactive message for the user of s on that day
CountProactive(added, s, kind, day) ==
    IF kind = "" THEN added
    ELSE [added EXCEPT ![Lower(Strip(s.user_email)), day] = @ + 1]

\* lines 107-111: user_email restored from the URL on a session without one
RestoreUser(s, q_user) ==
    IF s.user_email = "" /\ q_user # "" THEN [s EXCEPT !.user_email = q_user] ELSE s

\* the body of init_state for the session with its user restored
InitStateFrom(s, pending, pref_outing) ==
    /\ st' = RunProactiveChecks(s, pending, pref_outing, today)
    /\ proactive_added' = CountProactive(proactive_added, s, ProactiveKind(s, pending, today), today)

\* init_state: every script run of the app calls it (the app loads)
InitState(pref_outing) ==
    /\ InitStateFrom(RestoreUser(st, Lower(Strip(query_user))), GetPendingReview(missions), pref_outing)
    /\ last_op' = "init_state"
    /\ UNCHANGED <<query_user, missions, today>>
    /\ UNCHANGED brainVars
    /\ UNCHANGED libVars

\* line 528, at module level: run_proactive_checks("calendar_refresh") runs when
\* src.flow is imported, before the first init_state of the process
FlowImported(pref_outing) ==
    /\ last_op = "start"
    /\ st' = RunProactiveChecks(st, GetPendingReview(missions), pref_outing, today)
    /\ proactive_added' = CountProactive(proactive_added, st,
                                         ProactiveKind(st, GetPendingReview(missions), today), today)
    /\ last_op' = "import_flow"
    /\ UNCHANGED <<query_user, missions, today>>
    /\ UNCHANGED brainVars
    /\ UNCHANGED libVars

\* app.py lines 136-139: the PIN unlocks the session
Unlock ==
    /\ ~st.authenticated
    /\ st' = [st EXCEPT !.authenticated = TRUE]
    /\ last_op' = "unlock"
    /\ UNCHANGED <<query_user, missions, today, proactive_added>>
    /\ UNCHANGED brainVars
    /\ UNCHANGED libVars

\* ui.py lines 597-601: Log Out
LogOut ==
    /\ st.authenticated
    /\ st' = [st EXCEPT !.authenticated = FALSE, !.user_email = ""]
    /\ last_op' = "log_out"
    /\ UNCHANGED <<query_user, missions, today, proactive_added>>
    /\ UNCHANGED brainVars
    /\ UNCHANGED libVars

\* upsert_calendar_missions for a calendar holding new_events events not yet tracked
UpsertCalendarMissions(ms, new_events) ==
    IF new_events = 0 \/ Len(ms) >= MaxMissions THEN ms
    ELSE Append(ms, [status |-> "pending", ended |-> FALSE])

\* refresh_calendar lines 510-527 for uid: the session state it leaves
RefreshedState(s, uid, upcoming_ok) ==
    IF uid = "" THEN s ELSE [s EXCEPT !.calendar_online = upcoming_ok]

\* refresh_calendar lines 510-527 for uid: the mission log it leaves (a failing
\* get_events_range leaves it as a range without new events does)
RefreshedMissions(ms, uid, upcoming_ok, new_events) ==
    IF uid # "" /\ upcoming_ok THEN UpsertCalendarMissions(ms, new_events) ELSE ms

\* refresh_calendar: the function ends at line 527 and runs no proactive check
RefreshCalendar(force_email, upcoming_ok, new_events) ==
    /\ st' = RefreshedState(st, Lower(Strip(IF force_email # "" THEN force_email ELSE st.user_email)), upcoming_ok)
    /\ missions' = RefreshedMissions(missions,
                                     Lower(Strip(IF force_email # "" THEN force_email ELSE st.user_email)),
                                     upcoming_ok, new_events)
    /\ last_op' = "refresh_calendar"
    /\ UNCHANGED <<query_user, today, proactive_added>>
    /\ UNCHANGED brainVars
    /\ UNCHANGED libVars

\* begin_reconnect
BeginReconnect(email) ==
    /\ st' = [st EXCEPT !.user_email = IF email # "" THEN email ELSE @, !.device_flow = TRUE]
    /\ query_user' = IF Lower(Strip(email)) # "" THEN Lower(Strip(email)) ELSE query_user
    /\ last_op' = "begin_reconnect"
    /\ UNCHANGED <<missions, today, proactive_added>>
    /\ UNCHANGED brainVars
    /\ UNCHANGED libVars

\* clear_reconnect
ClearReconnect ==
    /\ st' = [st EXCEPT !.device_flow = FALSE, !.calendar_online = FALSE,
                        !.pending_events = JList(<<>>), !.user_email = ""]
    /\ query_user' = ""
    /\ last_op' = "clear_reconnect"
    /\ UNCHANGED <<missions, today, proactive_added>>
    /\ UNCHANGED brainVars
    /\ UNCHANGED libVars

\* complete_reconnect: nothing changes unless the flow exists and saved holds (the
\* token came without an error and save_token_from_device_flow stored it)
CompleteReconnect(saved, upcoming_ok, new_events) ==
    /\ IF st.device_flow /\ saved
       THEN /\ st' = RefreshedState([st EXCEPT !.device_flow = FALSE], Lower(Strip(st.user_email)), upcoming_ok)
            /\ query_user' = IF Lower(Strip(st.user_email)) # "" THEN Lower(Strip(st.user_email)) ELSE query_user
            /\ missions' = RefreshedMissions(missions, Lower(Strip(st.user_email)), upcoming_ok, new_events)
       ELSE UNCHANGED <<st, query_user, missions>>
    /\ last_op' = "complete_reconnect"
    /\ UNCHANGED <<today, proactive_added>>
    /\ UNCHANGED brainVars
    /\ UNCHANGED libVars

\* checkin_yes: complete_mission_review closes the mission under review
CheckinYes ==
    /\ IF GetPendingReview(missions)
       THEN /\ missions' = [missions EXCEPT ![PendingIndex(missions)].status = "reviewed"]
            /\ st' = [st EXCEPT !.chat_history = AddMsg(@, "assistant", "Noted: 'Gym' completed.")]
       ELSE UNCHANGED <<st, missions>>
    /\ last_op' = "checkin_yes"
    /\ UNCHANGED <<query_user, today, proactive_added>>
    /\ UNCHANGED brainVars
    /\ UNCHANGED libVars

\* the clock passes the end_time of mission i
ClockPasses(i) ==
    /\ i \in 1..Len(missions)
    /\ ~missions[i].ended
    /\ missions' = [missions EXCEPT ![i].ended = TRUE]
    /\ last_op' = "clock"
    /\ UNCHANGED <<st, query_user, today, proactive_added>>
    /\ UNCHANGED brainVars
    /\ UNCHANGED libVars

\* midnight: datetime.now().astimezone().date() moves to the next day
DayPasses ==
    /\ today < MaxDay
    /\ today' = today + 1
    /\ last_op' = "midnight"
    /\ UNCHANGED <<st, query_user, missions, proactive_added>>
    /\ UNCHANGED brainVars
    /\ UNCHANGED libVars

\* a process that is about to import src.flow for the first script run of a session
InitProactive ==
    /\ st = SessionDefaults
    /\ query_user \in {""} \cup Users
    /\ missions = <<>>
    /\ today = 1
    /\ proactive_added = [u \in Users, d \in 1..MaxDay |-> 0]
    /\ last_op = "start"
    /\ pc = "idle"
    /\ user_text = ""
    /\ has_image = FALSE
    /\ user_request = ""
    /\ parsed = NoneVal
    /\ calls = <<>>
    /\ ret = NoneVal
    /\ requests = 0
    /\ cal = NoneVal
    /\ travel = NoneVal
    /\ memory_file = <<>>
    /\ user_memory = [u \in Users |-> <<>>]

NextProactive ==
    \/ \E pref \in {"", "hiking"} : FlowImported(pref)
    \/ \E pref \in {"", "hiking"} : InitState(pref)
    \/ Unlock
    \/ LogOut
    \/ \E e \in {""} \cup Users, up \in BOOLEAN, n \in 0..1 : RefreshCalendar(e, up, n)
    \/ \E e \in {""} \cup Users : BeginReconnect(e)
    \/ ClearReconnect
    \/ \E saved \in BOOLEAN, up \in BOOLEAN, n \in 0..1 : CompleteReconnect(saved, up, n)
    \/ CheckinYes
    \/ \E i \in 1..MaxMissions : ClockPasses(i)
    \/ DayPasses

SpecProactive == InitProactive /\ [][NextProactive]_vars

(***************************************************************************)
(* Properties of get_coo_response and execute_plan_logic, under Spec       *)
(***************************************************************************)
\* get_coo_response gave its caller a JSON string
Returned == ret.k = "returned"

\* the object that JSON string holds
Response == ret.raw.v

\* the strict schema: the four keys, a known type, events of five string fields
IsStrictSchema(r) ==
    /\ r.k = "dict"
    /\ DOMAIN r.d = {"type", "text", "pre_prep", "events"}
    /\ r.d.type.k = "str" /\ r.d.type.s \in {"plan", "conflict", "question", "confirmation", "chat", "error"}
    /\ r.d.events.k = "list"
    /\ \A i \in 1..Len(r.d.events.items) :
          /\ r.d.events.items[i].k = "dict"
          /\ DOMAIN r.d.events.items[i].d = {"title", "start_time", "end_time", "location", "description"}
          /\ \A f \in DOMAIN r.d.events.items[i].d : r.d.events.items[i].d[f].k = "str"

\* C1: every value get_coo_response returns, on every return path, is an object with
\* exactly the keys type, text, pre_prep, events, a type among the six known ones,
\* and events whose elements have exactly the five string fields
C1_StrictSchema == Returned => IsStrictSchema(Response)

\* C1 witness: the weekend regeneration returned an event coerced from a messy one
\* (location 7, no end_time, an extra key)
C1_Witness ==
    /\ Returned
    /\ Len(calls) = 2 /\ calls[2].call = "weekend_regen"
    /\ Len(REvents(Response)) = 1
    /\ REvents(Response)[1].d.location.s = "7"

\* the labels of the LLM calls made so far
CallLabels == {calls[i].call : i \in 1..Len(calls)}

\* the error object of the failed repair
IsErrorObject(r) == RType(r) = "error" /\ REvents(r) = <<>> /\ r.d.pre_prep.s = ""

C3_LlmFailureReturned ==
    (pc = "done" /\ Len(calls) >= 1 /\ calls[Len(calls)].result = "raised") => Returned

\* the request get_coo_response was given went through the routing unchanged
Unrouted == user_request = user_text

\* C4: for a weekend-outing request every non-error response is a question whose
\* text holds (A), (B) and (C)
C4_WeekendCleanQuestion ==
    (Returned /\ Unrouted /\ IsWeekendOutingRequest(user_text) /\ RType(Response) # "error")
        => (RType(Response) = "question" /\ HasABC(RText(Response)))

\* C5: a returned plan has events only if the request has a clock time with am/pm
\* or asks for multiple events
C5_NoGuessedTimePlan ==
    (Returned /\ Unrouted /\ RType(Response) = "plan" /\ REvents(Response) # <<>>)
        => (UserProvidedTime(user_text) \/ UserRequestedMultiple(user_text))

\* C6: for a request without schedule/add/plan and without a weekend hint the
\* returned response does not push scheduling
C6_NoSchedulingPush ==
    (Returned /\ Unrouted /\ ~IsScheduleIntent(user_text) /\ ~IsWeekendOutingRequest(user_text))
        => ~PushesScheduling(Response)

\* C7: for a greeting without schedule/add/plan and without a weekend hint neither
\* the weekend nor the time-question regeneration runs and no events are returned
C7_GreetingStaysChat ==
    (Unrouted /\ IsGreeting(user_text) /\ ~IsScheduleIntent(user_text) /\ ~IsWeekendOutingRequest(user_text))
        => /\ CallLabels \cap {"weekend_regen", "time_question", "time_question_repair"} = {}
           /\ Returned => REvents(Response) = <<>>

\* the user's own message has the whole word schedule, add or plan, no "?", and no
\* question prefix at its start
StrictIntent(text) ==
    /\ \E w \in {"schedule", "add", "plan"} : HasWord(Lower(Strip(text)), w)
    /\ ~Contains(text, "?")
    /\ ~\E q \in QuestionPrefixes : StartsWith(Lower(Strip(text)), q)

\* C8: a step of execute_plan_logic changes pending_events only when the user's
\* message shows strict scheduling intent and the brain returned a non-empty events
\* list; in every other case pending_events is left as it was
C8_DraftOnlyOnIntent ==
    [][(last_op' = "execute_plan_logic" /\ st'.pending_events # st.pending_events)
          => /\ StrictIntent(user_text')
             /\ ret'.k = "returned" /\ REvents(ret'.raw.v) # <<>>]_vars

\* C8 witness: "schedule gym tomorrow 3pm" brought a plan whose events replaced the
\* earlier draft
C8_Witness ==
    /\ pc = "done" /\ Returned
    /\ user_text = "schedule gym tomorrow 3pm"
    /\ REvents(Response) # <<>>
    /\ st.pending_events = Response.d.events
    /\ last_op = "execute_plan_logic"

HasCheckin(s) == \E i \in 1..Len(s.chat_history) : s.chat_history[i].content = CheckinText

\* C10: when refresh_calendar returns in an unlocked session with a user, a pending
\* mission review and no proactive message yet today, the check-in message is in
\* chat_history and last_proactive_date is today
C10_RefreshRunsChecks ==
    [][(/\ last_op' = "refresh_calendar"
        /\ st.authenticated /\ Lower(Strip(st.user_email)) # ""
        /\ GetPendingReview(missions')
        /\ st.last_proactive_date # today)
          => (HasCheckin(st') /\ st'.last_proactive_date = today)]_vars

(***************************************************************************)
(* src/gcal.py: add_event_to_calendar                                      *)
(* A Python str that may hold code points no TLA+ string can is            *)
(* JText(cps), the tuple of its code points.                               *)
(***************************************************************************)
JText(cps) == [k |-> "text", cps |-> cps]

\* the characters of code points 32..126, in order; a tab holds the place of
\* code point 96, which a TLA+ string cannot hold
Printable == " !\"#$%&'()*+,-./0123456789:;<=>?@ABCDEFGHIJKLMNOPQRSTUVWXYZ[\\]^_\tabcdefghijklmnopqrstuvwxyz{|}~"

AsciiChar(c) == Ch(Printable, c - 31)

CodeOf(ch) ==
    IF ch = "\n" THEN 10 ELSE IF ch = "\t" THEN 9
    ELSE CHOOSE c \in 32..126 : AsciiChar(c) = ch

CodePoints(s) == [i \in 1..Len(s) |-> CodeOf(Ch(s, i))]

\* str(v), as code points
StrCodePoints(v) == IF v.k = "text" THEN v.cps ELSE CodePoints(PyStr(v))

\* str.strip() on code points
StripCps(s) ==
    LET keep == {i \in 1..Len(s) : s[i] \notin {9, 10, 11, 12, 13, 32}}
    IN IF keep = {} THEN <<>>
       ELSE SubSeq(s, MinOf(keep), CHOOSE i \in keep : \A j \in keep : j <= i)

\* str.encode("utf-8") of one code point that is not a surrogate
Utf8(c) ==
    IF c < 128 THEN <<c>>
    ELSE IF c < 2048 THEN <<192 + (c \div 64), 128 + (c % 64)>>
    ELSE IF c < 65536 THEN <<224 + (c \div 4096), 128 + ((c \div 64) % 64), 128 + (c % 64)>>
    ELSE <<240 + (c \div 262144), 128 + ((c \div 4096) % 64), 128 + ((c \div 64) % 64), 128 + (c % 64)>>

HexDigits == "0123456789ABCDEF"

RECURSIVE PercentBytes(_)
\* "%XX" for each byte
PercentBytes(bs) ==
    IF bs = <<>> THEN ""
    ELSE "%" \o Ch(HexDigits, (Head(bs) \div 16) + 1) \o Ch(HexDigits, (Head(bs) % 16) + 1)
             \o PercentBytes(Tail(bs))

\* the characters urllib.parse.quote never quotes, with its default safe="/"
AlwaysSafe(c) == c \in (48..57) \cup (65..90) \cup (97..122) \cup {45, 46, 95, 126, 47}

RECURSIVE QuoteFrom(_, _)
QuoteFrom(s, i) ==
    IF i > Len(s) THEN ""
    ELSE (IF AlwaysSafe(s[i]) THEN AsciiChar(s[i]) ELSE PercentBytes(Utf8(s[i])))
             \o QuoteFrom(s, i + 1)

\* urllib.parse.quote(s): the UnicodeEncodeError of a lone surrogate, or the quoted text
Quote(s) ==
    IF \E i \in 1..Len(s) : s[i] \in 55296..57343 THEN RaiseVal ELSE JStr(QuoteFrom(s, 1))

\* datetime.fromisoformat(v); a date is written D<days from today>, as FormatDt writes it
FromIsoFormat(v) ==
    IF v.k # "str" THEN RaiseVal
    ELSE LET s == v.s
             t == Len(s) - 8
         IN IF /\ t >= 2 /\ Ch(s, 1) = "D" /\ Ch(s, t) = "T"
               /\ \A i \in (2..t - 1) \cup {t + 1, t + 2, t + 4, t + 5, t + 7, t + 8} : Ch(s, i) \in Digits
               /\ Ch(s, t + 3) = ":" /\ Ch(s, t + 6) = ":"
               /\ 10 * DigitVal(Ch(s, t + 1)) + DigitVal(Ch(s, t + 2)) <= 23
               /\ DigitVal(Ch(s, t + 4)) <= 5 /\ DigitVal(Ch(s, t + 7)) <= 5
            THEN [k |-> "dt",
                  day |-> IF t = 3 THEN DigitVal(Ch(s, 2)) ELSE 10 * DigitVal(Ch(s, 2)) + DigitVal(Ch(s, 3)),
                  hour |-> 10 * DigitVal(Ch(s, t + 1)) + DigitVal(Ch(s, t + 2)),
                  minute |-> 10 * DigitVal(Ch(s, t + 4)) + DigitVal(Ch(s, t + 5)),
                  second |-> 10 * DigitVal(Ch(s, t + 7)) + DigitVal(Ch(s, t + 8))]
            ELSE RaiseVal

\* the end of the event: end_time if the event has one, else start + 1 hour
EndOf(event, dt_start) ==
    IF Truthy(Get(event, "end_time")) THEN FromIsoFormat(Get(event, "end_time"))
    ELSE DefaultEndTime(dt_start)

\* strftime('%Y%m%dT%H%M%S')
CompactDt(dt) ==
    "D" \o NatToStr(dt.day) \o "T" \o TwoDigits(dt.hour) \o TwoDigits(dt.minute) \o TwoDigits(dt.second)

Triple(ok, message, event_id) ==
    [k |-> "triple", ok |-> ok, message |-> message, event_id |-> event_id]

\* the (event, user_id) the arguments bind, or bad for two positional non-dicts
BindArgs(args, kw_user_id) ==
    IF Len(args) = 1 THEN
        IF IsDict(args[1]) THEN [bad |-> FALSE, event |-> args[1], user_id |-> kw_user_id]
        ELSE [bad |-> FALSE, event |-> NoneVal, user_id |-> args[1]]
    ELSE IF Len(args) >= 2 THEN
        IF IsDict(args[1]) /\ ~IsDict(args[2]) THEN [bad |-> FALSE, event |-> args[1], user_id |-> args[2]]
        ELSE IF ~IsDict(args[1]) /\ IsDict(args[2]) THEN [bad |-> FALSE, event |-> args[2], user_id |-> args[1]]
        ELSE IF IsDict(args[1]) /\ IsDict(args[2]) THEN [bad |-> FALSE, event |-> args[1], user_id |-> kw_user_id]
        ELSE [bad |-> TRUE, event |-> NoneVal, user_id |-> kw_user_id]
    ELSE [bad |-> FALSE, event |-> NoneVal, user_id |-> kw_user_id]

\* the try block when get_calendar_service gave a service; created is what
\* insert(...).execute() gives: the created event, or the exception it raises.
\* The time zone the datetimes get does not change which return is taken; the
\* success message is written without its leading check mark.
AddWithService(event, created) ==
    IF ~Truthy(Get(event, "start_time")) THEN Triple(FALSE, "No start_time", JNull)
    ELSE IF FromIsoFormat(Get(event, "start_time")).k = "raise"
        THEN Triple(FALSE, "Calendar add failed: Invalid isoformat string", JNull)
    ELSE IF EndOf(event, FromIsoFormat(Get(event, "start_time"))).k = "raise"
        THEN Triple(FALSE, "Calendar add failed: Invalid isoformat string", JNull)
    ELSE IF created.k = "raise" THEN Triple(FALSE, "Calendar add failed: " \o created.msg, JNull)
    ELSE Triple(TRUE, "Added to Calendar!", Get(created.d, "id"))

\* event.get(key, default), as the code points of its str()
TextOr(event, key, default) ==
    IF key \in DOMAIN event THEN StrCodePoints(event[key]) ELSE CodePoints(default)

\* f"{event.get('description','')}\n\n<mark> {event.get('pre_prep','')}".strip(); the mark
\* is the four characters the source file holds there
Details(event) ==
    StripCps(TextOr(event, "description", "") \o <<10, 10, 63743, 252, 237, 176, 32>>
                 \o TextOr(event, "pre_prep", ""))

\* the dates of the link, or the exception of the try block around them
LinkDates(event) ==
    LET dt_start == FromIsoFormat(Get(event, "start_time"))
    IN IF dt_start.k = "raise" THEN RaiseVal
       ELSE IF EndOf(event, dt_start).k = "raise" THEN RaiseVal
       ELSE JStr(CompactDt(dt_start) \o "/" \o CompactDt(EndOf(event, dt_start)))

LinkOf(title, dates, details, location) ==
    "https://calendar.google.com/calendar/render?action=TEMPLATE"
        \o "&text=" \o title \o "&dates=" \o dates \o "&details=" \o details \o "&location=" \o location

\* fallback link mode: the three quote calls stand outside every try
LinkMode(event) ==
    IF Quote(TextOr(event, "title", "Event")).k = "raise" THEN RaiseVal
    ELSE IF Quote(Details(event)).k = "raise" THEN RaiseVal
    ELSE IF Quote(TextOr(event, "location", "")).k = "raise" THEN RaiseVal
    ELSE IF LinkDates(event).k = "raise" THEN Triple(FALSE, "https://calendar.google.com/", JNull)
    ELSE Triple(FALSE, LinkOf(Quote(TextOr(event, "title", "Event")).s, LinkDates(event).s,
                              Quote(Details(event)).s, Quote(TextOr(event, "location", "")).s),
                JNull)

\* after the arguments are bound. service is what get_calendar_service gives:
\* "service", "none" (None) or "raise"
AddBound(b, service, created) ==
    IF b.bad THEN Triple(FALSE, "Invalid arguments for add_event_to_calendar()", JNull)
    ELSE IF ~IsDict(b.event) THEN Triple(FALSE, "Invalid event payload (expected dict).", JNull)
    ELSE IF service = "raise" THEN Triple(FALSE, "Calendar add failed: auth", JNull)
    ELSE IF service = "service" THEN AddWithService(b.event.d, created)
    ELSE LinkMode(b.event.d)

\* what add_event_to_calendar(*args, user_id=kw_user_id) gives its caller: a triple,
\* or RaiseVal when an exception leaves it
AddEventToCalendarResult(args, kw_user_id, service, created) ==
    AddBound(BindArgs(args, kw_user_id), service, created)

\* the events handed to add_event_to_calendar
EvSurrogateTitle == [title |-> JText(CodePoints("Gym ") \o <<55357>>),
                     start_time |-> JStr("D1T15:00:00")]

EvBadStart == [title |-> JStr("Gym & swim"), start_time |-> JStr("tomorrow 3pm"),
               description |-> JStr("bring towel")]

EvBadEnd == [title |-> JStr("Gym"), start_time |-> JStr("D1T15:00:00"), end_time |-> JNum(16)]

EvNoEnd == [title |-> JStr("Gym"), start_time |-> JStr("D1T23:30:00"), pre_prep |-> JStr("pack bag")]

CalendarEvents == {JObj(EvGym), JObj(EvNoTime), JObj(EvSurrogateTitle), JObj(EvBadStart),
                   JObj(EvBadEnd), JObj(EvNoEnd)}

CalendarUserIds == {JStr("a@x.com"), JNull}

\* the positional arguments of a call: none, one or two of them
CalendarArgs ==
    {<<>>} \cup {<<a>> : a \in CalendarEvents \cup CalendarUserIds}
           \cup {<<a, b>> : a \in CalendarUserIds, b \in CalendarEvents}
           \cup {<<a, b>> : a \in CalendarEvents, b \in CalendarUserIds}
           \cup {<<JObj(EvGym), JObj(EvNoEnd)>>, <<JStr("a@x.com"), JNull>>}

InsertOutcomes == {JObj([id |-> JStr("evt1")]), JObj([status |-> JStr("confirmed")]),
                   [k |-> "raise", msg |-> "HttpError 403"]}

\* add_event_to_calendar runs on the arguments of the pending call, from call to return
AddEventToCalendar ==
    /\ cal.k = "args"
    /\ cal' = [cal EXCEPT !.k = "call",
                  !.ret = AddEventToCalendarResult(cal.args, cal.kw_user_id, cal.service, cal.created)]
    /\ UNCHANGED <<st, query_user, missions, today, proactive_added, last_op>>
    /\ UNCHANGED brainVars
    /\ UNCHANGED <<travel, memory_file, user_memory>>

\* a call of add_event_to_calendar with its arguments bound, and what the calendar
\* service will do: created is read only when there is a service
InitCalendar ==
    /\ st = SessionDefaults
    /\ query_user = ""
    /\ missions = <<>>
    /\ today = 1
    /\ proactive_added = [u \in Users, d \in 1..1 |-> 0]
    /\ last_op = "start"
    /\ pc = "idle"
    /\ user_text = ""
    /\ has_image = FALSE
    /\ user_request = ""
    /\ parsed = NoneVal
    /\ calls = <<>>
    /\ ret = NoneVal
    /\ requests = 0
    /\ \E args \in CalendarArgs, kw \in {NoneVal, JStr("b@x.com")},
          service \in {"service", "none", "raise"}, created \in InsertOutcomes :
             cal = [k |-> "args", args |-> args, kw_user_id |-> kw, service |-> service,
                    created |-> IF service = "service" THEN created ELSE NoneVal,
                    ret |-> NoneVal]
    /\ travel = NoneVal
    /\ memory_file = <<>>
    /\ user_memory = [u \in Users |-> <<>>]

NextCalendar == AddEventToCalendar

SpecCalendar == InitCalendar /\ [][NextCalendar]_vars

\* a call has returned or raised
Called == cal.k = "call"

\* the event the call's arguments bind
BoundEvent == BindArgs(cal.args, cal.kw_user_id).event

\* C11: add_event_to_calendar never raises and returns a triple; ok is True only
\* when a service was obtained and the insert succeeded, and event_id is then the
\* created event's id; with an event and no service the return is (False, link, None);
\* an exception during the insert gives (False, error message, None)
C11_NeverRaises ==
    Called =>
        /\ cal.ret.k = "triple"
        /\ (cal.ret.ok => (/\ cal.service = "service"
                           /\ cal.created.k = "dict"
                           /\ cal.ret.event_id = Get(cal.created.d, "id")))
        /\ (~cal.ret.ok => cal.ret.event_id = JNull)
        /\ ((cal.service = "none" /\ IsDict(BoundEvent))
               => (~cal.ret.ok /\ StartsWith(cal.ret.message, "https://calendar.google.com/")))
        /\ ((cal.service = "service" /\ cal.created.k = "raise" /\ IsDict(BoundEvent))
               => ~cal.ret.ok)

(***************************************************************************)
(* src/brain_updated.py: _conflict_with_travel                             *)
(* A time is a number of minutes; a ledger entry is [start, end, location]. *)
(***************************************************************************)
\* _overlaps
Overlaps(a_start, a_end, b_start, b_end) == a_start < b_end /\ a_end > b_start

\* _needs_travel_buffer without its strip().lower()
NeedsTravelBufferRaw(loc_a, loc_b) == loc_a # "" /\ loc_b # "" /\ loc_a # loc_b

\* _needs_travel_buffer
NeedsTravelBuffer(loc_a, loc_b) ==
    LET la == Lower(Strip(loc_a))
        lb == Lower(Strip(loc_b))
    IN IF la = "" \/ lb = "" THEN FALSE ELSE la # lb

\* datetime.timedelta(minutes=30)
TravelMinutes == 30

\* the body of the loop for the entry b: it returns (True, b)
ConflictsWith(proposed_start, proposed_end, proposed_loc, b) ==
    \/ Overlaps(proposed_start, proposed_end, b.start, b.end)
    \/ /\ NeedsTravelBuffer(proposed_loc, b.location)
       /\ \/ b.end <= proposed_start /\ proposed_start - b.end < TravelMinutes
          \/ proposed_end <= b.start /\ b.start - proposed_end < TravelMinutes

RECURSIVE ConflictFrom(_, _, _, _, _)
\* the loop over the ledger from its i-th entry on
ConflictFrom(proposed_start, proposed_end, proposed_loc, ledger, i) ==
    IF i > Len(ledger) THEN [conflict |-> FALSE, item |-> NoneVal]
    ELSE IF ConflictsWith(proposed_start, proposed_end, proposed_loc, ledger[i])
        THEN [conflict |-> TRUE, item |-> ledger[i]]
    ELSE ConflictFrom(proposed_start, proposed_end, proposed_loc, ledger, i + 1)

\* what _conflict_with_travel returns
ConflictWithTravelResult(proposed_start, proposed_end, proposed_loc, ledger) ==
    ConflictFrom(proposed_start, proposed_end, proposed_loc, ledger, 1)

MaxLedger == 2

\* the busy intervals of the ledger: before, around and after the proposed ones
BusyIntervals == {<<0, 15>>, <<15, 30>>, <<30, 45>>, <<45, 60>>, <<45, 75>>,
                  <<60, 90>>, <<90, 105>>, <<105, 120>>, <<120, 135>>}

LedgerEntries == {[start |-> t[1], end |-> t[2], location |-> l] :
                     t \in BusyIntervals, l \in {"", "gym", "Office"}}

RECURSIVE LedgersUpTo(_)
LedgersUpTo(n) ==
    IF n = 0 THEN {<<>>}
    ELSE LedgersUpTo(n - 1) \cup {Append(l, e) : l \in {x \in LedgersUpTo(n - 1) : Len(x) = n - 1},
                                                  e \in LedgerEntries}

\* the proposed slots: (start, end, location); locations reach the function trimmed
ProposedSlots == {[start |-> t[1], end |-> t[2], location |-> l] :
                     t \in {<<60, 90>>, <<30, 45>>}, l \in {"", "Gym", "Office"}}

\* _conflict_with_travel runs on the arguments of the pending call
ConflictWithTravel ==
    /\ travel.k = "args"
    /\ travel' = [travel EXCEPT !.k = "done",
                     !.ret = ConflictWithTravelResult(travel.proposed.start, travel.proposed.end,
                                                      travel.proposed.location, travel.ledger)]
    /\ UNCHANGED <<st, query_user, missions, today, proactive_added, last_op>>
    /\ UNCHANGED brainVars
    /\ UNCHANGED <<cal, memory_file, user_memory>>

\* a call of _conflict_with_travel with its arguments bound
InitTravel ==
    /\ st = SessionDefaults
    /\ query_user = ""
    /\ missions = <<>>
    /\ today = 1
    /\ proactive_added = [u \in Users, d \in 1..1 |-> 0]
    /\ last_op = "start"
    /\ pc = "idle"
    /\ user_text = ""
    /\ has_image = FALSE
    /\ user_request = ""
    /\ parsed = NoneVal
    /\ calls = <<>>
    /\ ret = NoneVal
    /\ requests = 0
    /\ cal = NoneVal
    /\ \E p \in ProposedSlots, l \in LedgersUpTo(MaxLedger) :
          travel = [k |-> "args", proposed |-> p, ledger |-> l, ret |-> NoneVal]
    /\ memory_file = <<>>
    /\ user_memory = [u \in Users |-> <<>>]

NextTravel == ConflictWithTravel

SpecTravel == InitTravel /\ [][NextTravel]_vars

\* the proposed interval intersects the entry b
Intersects(p, b) == p.start < b.end /\ p.end > b.start

\* the gap between the proposed interval and the entry b, on either side, is
\* strictly less than 30 minutes
GapUnder30(p, b) ==
    \/ b.end <= p.start /\ p.start - b.end < 30
    \/ p.end <= b.start /\ b.start - p.end < 30

\* C12 as stated: a conflict is reported exactly when the proposed interval intersects
\* some ledger entry, or both locations are non-empty and different and the gap to a
\* ledger entry is under 30 minutes
C12_ConflictExactly ==
    travel.k = "done" =>
        (travel.ret.conflict <=>
            \E i \in 1..Len(travel.ledger) :
                \/ Intersects(travel.proposed, travel.ledger[i])
                \/ /\ travel.proposed.location # "" /\ travel.ledger[i].location # ""
                   /\ travel.proposed.location # travel.ledger[i].location
                   /\ GapUnder30(travel.proposed, travel.ledger[i]))

\* the location as the comparison sees it: trimmed, in lower case
Place(loc) == Lower(Strip(loc))

\* C12 amended: a conflict is reported exactly when the proposed interval intersects
\* some ledger entry, or both locations, trimmed and in lower case, are non-empty and
\* different and the gap to a ledger entry is under 30 minutes; the entry reported is
\* the first such entry of the ledger, and None when there is no conflict
C12_ConflictExactlyNormalised ==
    travel.k = "done" =>
        LET hit == {i \in 1..Len(travel.ledger) :
                       \/ Intersects(travel.proposed, travel.ledger[i])
                       \/ /\ Place(travel.proposed.location) # ""
                          /\ Place(travel.ledger[i].location) # ""
                          /\ Place(travel.proposed.location) # Place(travel.ledger[i].location)
                          /\ GapUnder30(travel.proposed, travel.ledger[i])}
        IN /\ travel.ret.conflict <=> hit # {}
           /\ travel.ret.item = IF hit = {} THEN NoneVal ELSE travel.ledger[MinOf(hit)]

\* C12 witness: a conflict reported for the travel buffer alone (no entry intersects
\* the proposed interval), beside an entry at the same place, written in another
\* case, that is 15 minutes away and is not the conflict
C12_Witness ==
    /\ travel.k = "done"
    /\ travel.ret.conflict
    /\ \A i \in 1..Len(travel.ledger) : ~Intersects(travel.proposed, travel.ledger[i])
    /\ travel.proposed.location = "Gym"
    /\ Len(travel.ledger) = 2
    /\ travel.ledger[1].location = "gym" /\ GapUnder30(travel.proposed, travel.ledger[1])
    /\ travel.ret.item = travel.ledger[2]

(***************************************************************************)
(* src/utils.py: the writers of memory/feedback_log.json and of the        *)
(* per-user memory files. A file is the list _read_json gives for it; two  *)
(* user ids share a file when _safe_user_key maps them to one name, which  *)
(* the ids of Users do not.                                                *)
(***************************************************************************)
\* stands for max_items=2000 of append_user_memory_entry
MaxItems == 3

\* stands for the 200 newest rows the dedupe looks at
DedupeWindow == 2

\* entries the feedback log may hold before the model stops adding
MaxLog == 2

\* the entry with "user_id" set when user_id is truthy
WithUserId(entry, user_id) ==
    IF Truthy(user_id)
    THEN [f \in DOMAIN entry \cup {"user_id"} |->
             IF f = "user_id" THEN JStr(Lower(Strip(PyStr(user_id)))) ELSE entry[f]]
    ELSE entry

\* save_manual_feedback
SaveManualFeedback(topic, feedback, rating, user_id) ==
    /\ Len(memory_file) < MaxLog
    /\ memory_file' = Append(memory_file,
           WithUserId([timestamp |-> JStr("Manual"), mission |-> JStr(topic),
                       feedback |-> JStr(feedback), rating |-> JStr(rating)], user_id))
    /\ last_op' = [op |-> "save_manual_feedback", wrote |-> TRUE, dropped |-> 0]
    /\ UNCHANGED <<st, query_user, missions, today, proactive_added, user_memory, cal, travel>>
    /\ UNCHANGED brainVars

\* the index of the first mission whose id is mission_id, 0 if there is none
MissionIndex(ms, mission_id) ==
    IF \E i \in 1..Len(ms) : ms[i].id = mission_id
    THEN MinOf({i \in 1..Len(ms) : ms[i].id = mission_id})
    ELSE 0

\* complete_mission_review; the ratings are written as words, not as the emoji
CompleteMissionReview(mission_id, was_completed, reason, user_id) ==
    LET i == MissionIndex(missions, mission_id)
    IN /\ Len(memory_file) < MaxLog
       /\ missions' = IF i = 0 THEN missions ELSE [missions EXCEPT ![i].status = "reviewed"]
       /\ memory_file' = Append(memory_file,
              WithUserId([timestamp |-> JStr("D" \o NatToStr(today)),
                          mission |-> JStr(IF i = 0 THEN "Unknown Mission" ELSE missions[i].title),
                          feedback |-> JStr("User " \o (IF was_completed THEN "completed" ELSE "skipped")
                                               \o " this. Reason: " \o reason),
                          rating |-> JStr(IF was_completed THEN "thumbs up" ELSE "thumbs down")],
                         user_id))
       /\ last_op' = [op |-> "complete_mission_review", wrote |-> TRUE, dropped |-> 0]
       /\ UNCHANGED <<st, query_user, today, proactive_added, user_memory, cal, travel>>
       /\ UNCHANGED brainVars

\* the dedupe key of a row: (kind, key, value) as compared
DedupeKey(r) == <<Lower(Strip(FieldStr(r, "kind"))), Lower(Strip(FieldStr(r, "key"))),
                  Strip(FieldStr(r, "value"))>>

\* the entry is already among the newest rows
AlreadyStored(rows, entry) ==
    /\ \A j \in 1..3 : DedupeKey(entry)[j] # ""
    /\ \E i \in 1..Len(rows) : i > Len(rows) - DedupeWindow /\ DedupeKey(rows[i]) = DedupeKey(entry)

\* entry.setdefault("ts_utc", now), entry.setdefault("source", "brain")
Stamped(entry) ==
    [f \in DOMAIN entry \cup {"ts_utc", "source"} |->
        IF f \in DOMAIN entry THEN entry[f]
        ELSE IF f = "ts_utc" THEN JStr("D" \o NatToStr(today)) ELSE JStr("brain")]

\* "Cap file size" with one row too few kept: rows[-(max_items - 1):]
CapRowsShort(rows, max_items) ==
    IF max_items # 0 /\ Len(rows) > max_items
    THEN SubSeq(rows, Len(rows) - max_items + 2, Len(rows))
    ELSE rows

\* "Cap file size": rows[-max_items:] when there are more than max_items
CapRows(rows, max_items) ==
    IF max_items # 0 /\ Len(rows) > max_items
    THEN SubSeq(rows, Len(rows) - max_items + 1, Len(rows))
    ELSE rows

\* append_user_memory_entry(user_id, entry) with the default max_items
AppendUserMemoryEntry(user_id, entry) ==
    /\ IF user_id = "" \/ ~IsDict(entry) \/ AlreadyStored(user_memory[user_id], entry.d)
       THEN /\ last_op' = [op |-> "append_user_memory_entry", wrote |-> FALSE, dropped |-> 0]
            /\ UNCHANGED user_memory
       ELSE /\ user_memory' = [user_memory EXCEPT ![user_id] =
                                  CapRows(Append(@, Stamped(entry.d)), MaxItems)]
            /\ last_op' = [op |-> "append_user_memory_entry", wrote |-> TRUE,
                           dropped |-> Len(user_memory[user_id]) + 1 - Len(user_memory'[user_id])]
    /\ UNCHANGED <<st, query_user, missions, today, proactive_added, memory_file, cal, travel>>
    /\ UNCHANGED brainVars

\* the memory entries the brain hands over, and a payload that is no dict
MemoryEntries ==
    {JObj([kind |-> JStr("preference"), key |-> JStr("gym"), value |-> JStr("mornings")]),
     JObj([kind |-> JStr("Preference "), key |-> JStr("Gym"), value |-> JStr("mornings"),
           source |-> JStr("user")]),
     JObj([note |-> JStr("likes hiking")]),
     JStr("likes hiking")}

\* the files as init_files leaves them, and one tracked mission
InitMemory ==
    /\ st = SessionDefaults
    /\ query_user = ""
    /\ missions = <<[id |-> "m1", title |-> "Gym", status |-> "pending"]>>
    /\ today = 1
    /\ proactive_added = [u \in Users, d \in 1..1 |-> 0]
    /\ last_op = [op |-> "start", wrote |-> FALSE, dropped |-> 0]
    /\ pc = "idle"
    /\ user_text = ""
    /\ has_image = FALSE
    /\ user_request = ""
    /\ parsed = NoneVal
    /\ calls = <<>>
    /\ ret = NoneVal
    /\ requests = 0
    /\ cal = NoneVal
    /\ travel = NoneVal
    /\ memory_file = <<>>
    /\ user_memory = [u \in Users |-> <<>>]

NextMemory ==
    \/ \E user_id \in {JNull, JStr(" A@x.com ")} : SaveManualFeedback("Gym", "too late", "thumbs down", user_id)
    \/ \E mission_id \in {"m1", "m9"}, was_completed \in BOOLEAN :
          CompleteMissionReview(mission_id, was_completed, "busy", JNull)
    \/ \E user_id \in {"", "a@x.com"}, entry \in MemoryEntries : AppendUserMemoryEntry(user_id, entry)

SpecMemory == InitMemory /\ [][NextMemory]_vars

\* new holds every entry of old, unchanged and in order, and at most one more at the end
Extends(old, new) ==
    /\ Len(new) \in {Len(old), Len(old) + 1}
    /\ SubSeq(new, 1, Len(old)) = old

====
